---- MODULE Spec2Model ----
(***************************************************************************)
(* Model of src/Annotation.py: the Annotation class, a sqlite-backed store *)
(* of per-frame object annotations plus the session that binds it to a     *)
(* durable file (temporary working copy or named save) and to a video.     *)
(*                                                                         *)
(* A database connection is modelled by what sqlite gives the code:        *)
(*   tx            the tables as seen through the connection, pending      *)
(*                 (uncommitted) changes included;                         *)
(*   fs[connFile]  the committed tables, i.e. the content of the file;     *)
(*   commit        copies tx to the file; close without commit drops the   *)
(*                 pending changes.                                        *)
(* The python sqlite3 module opens a transaction implicitly before INSERT, *)
(* UPDATE and DELETE and never before CREATE TABLE or SELECT.              *)
(***************************************************************************)
EXTENDS Integers, Sequences, FiniteSets, TLC

\* ------------------------------------------------------------------ bounds
MaxRows == 3        \* rows the frames table may hold (store runs)
MaxFrames == 2      \* largest frame count a video reports
SessionRows == 1    \* rows the frames table may hold (session runs)
ExportRows == 2     \* rows the frames table may hold (export runs)

\* --------------------------------------------------------------- constants
SUFFIX == ".atc"
TEMP_WORKING_FILENAME == ".working.atc"

\* os.getcwd(): the process never changes directory
Cwd == "/cwd/"

None == "None"

VideoPaths == {"v.mp4"}
NamedPaths == {"a.atc"}
TempPaths == {TEMP_WORKING_FILENAME, Cwd \o TEMP_WORKING_FILENAME}
AtcPaths == NamedPaths \cup TempPaths

\* os.path.abspath / the file a path names
Abs(p) ==
  CASE p = TEMP_WORKING_FILENAME -> Cwd \o TEMP_WORKING_FILENAME
    [] p = "a.atc" -> Cwd \o "a.atc"
    [] OTHER -> p

TempFile == Abs(TEMP_WORKING_FILENAME)
Files == {Abs(p) : p \in AtcPaths}

\* os.path.splitext(filename)[1]
Extension(p) == IF p \in AtcPaths THEN SUFFIX ELSE ".mp4"

ClassNames == {"car", "dog"}
Contours == {<<3, 14, 5, 6>>}
FrameNumbers == {1, 2}
ObjectIds == {1, 2, 3}
MergeIds == {-1, 0, 1, 2}
Finals == {0, 1}

\* the inputs of the session runs, where the files are what varies
SessionFrames == {1}
SessionIds == {1}
SessionClasses == {"car"}

\* what cv2.VideoCapture finds when a video path is opened
VideoOutcomes ==
  {<<"missing">>, <<"unreadable">>} \cup {<<"frames", n>> : n \in 0..MaxFrames}

\* ------------------------------------------------------------ sql helpers
\* text is a sequence of characters
DigitChars == <<"0", "1", "2", "3", "4", "5", "6", "7", "8", "9">>

RECURSIVE Str(_)
\* str(x) of an integer
Str(x) ==
  IF x < 0 THEN <<"-">> \o Str(-x)
  ELSE IF x < 10 THEN <<DigitChars[x + 1]>>
  ELSE Str(x \div 10) \o <<DigitChars[(x % 10) + 1]>>

RECURSIVE JoinStr(_)
\* ' '.join([str(x) for x in contour])
JoinStr(c) ==
  IF c = <<>> THEN <<>>
  ELSE IF Len(c) = 1 THEN Str(c[1])
  ELSE Str(c[1]) \o <<" ">> \o JoinStr(Tail(c))

RECURSIVE Split(_)
\* text.split(): the runs of characters between blanks
Split(text) ==
  IF text = <<>> THEN <<>>
  ELSE IF Head(text) = " " THEN Split(Tail(text))
  ELSE LET blanks == {i \in 1..Len(text) : text[i] = " "}
           n == IF blanks = {} THEN Len(text) + 1
                ELSE CHOOSE i \in blanks : \A j \in blanks : i <= j
       IN <<SubSeq(text, 1, n - 1)>> \o Split(SubSeq(text, n, Len(text)))

RECURSIVE ParseInt(_)
\* int(s) of a run of digits with an optional sign
ParseInt(s) ==
  IF Head(s) = "-" THEN 0 - ParseInt(Tail(s))
  ELSE LET d == CHOOSE k \in 0..9 : DigitChars[k + 1] = s[Len(s)]
       IN IF Len(s) = 1 THEN d
          ELSE ParseInt(SubSeq(s, 1, Len(s) - 1)) * 10 + d

\* [int(s) for s in r[3].split()]
ParsePoints(text) ==
  LET runs == Split(text) IN [i \in 1..Len(runs) |-> ParseInt(runs[i])]

\* the tables right after the three CREATE TABLE statements
EmptyDb == [kind |-> "db", frames |-> <<>>, classes |-> <<>>, session |-> <<>>]

\* a path at which no file exists
NoFile == [kind |-> "nofile", frames |-> <<>>, classes |-> <<>>, session |-> <<>>]

\* a file that is not an sqlite database (truncated, overwritten, ...)
Garbage == [kind |-> "garbage", frames |-> <<>>, classes |-> <<>>, session |-> <<>>]

Range(s) == {s[i] : i \in 1..Len(s)}

\* INSERT INTO frames VALUES(?, ?, ?, ?, ?)
InsertFrame(rows, f, o, c, ct, fin) ==
  Append(rows, [frame |-> f, object |-> o, class |-> c,
                contour |-> JoinStr(ct), final |-> fin])

\* the optional frame argument of remove: {} for None, {n} for frame n
NoFrame == {}

\* (mutant) the DELETE that forgets its frame condition
DeleteFramesAnyFrame(rows, o, f) == SelectSeq(rows, LAMBDA r : r.object # o)

\* DELETE from frames where object=(?) [and frame=(?)]
DeleteFrames(rows, o, f) ==
  IF f = NoFrame
    THEN SelectSeq(rows, LAMBDA r : r.object # o)
    ELSE SelectSeq(rows, LAMBDA r : ~(r.object = o /\ r.frame \in f))

\* UPDATE frames SET class=(?) WHERE object=(?)
UpdateClass(rows, o, c) ==
  [i \in 1..Len(rows) |->
     IF rows[i].object = o THEN [rows[i] EXCEPT !.class = c] ELSE rows[i]]

\* UPDATE frames SET final=1 WHERE object=(?) AND frame=(?)
UpdateFinalObject(rows, o, f) ==
  [i \in 1..Len(rows) |->
     IF rows[i].object = o /\ rows[i].frame = f
       THEN [rows[i] EXCEPT !.final = 1] ELSE rows[i]]

\* UPDATE frames SET final=1 WHERE frame=(?)
UpdateFinalFrame(rows, f) ==
  [i \in 1..Len(rows) |->
     IF rows[i].frame = f THEN [rows[i] EXCEPT !.final = 1] ELSE rows[i]]

\* SELECT 1 FROM frames WHERE object = (?)
SelectObject(rows, o) == SelectSeq(rows, LAMBDA r : r.object = o)

\* (mutant) the shared-frame query looking only at records of another object
SelectSharedOtherObject(rows, from_id, to_id) ==
  SelectSeq(rows, LAMBDA r :
     /\ r.object = from_id
     /\ from_id # to_id
     /\ r.frame \in {q.frame : q \in Range(SelectObject(rows, to_id))})

\* SELECT 1 FROM frames WHERE object = (?) AND frame in
\*   (SELECT frame FROM frames WHERE object = (?))
SelectShared(rows, from_id, to_id) ==
  SelectSeq(rows, LAMBDA r :
     /\ r.object = from_id
     /\ r.frame \in {q.frame : q \in Range(SelectObject(rows, to_id))})

\* (mutant) the class query without its WHERE clause
SelectClassAnyObject(rows, o) == rows[1].class

\* SELECT class FROM frames WHERE object = (?) LIMIT 1, then [0][0]:
\* the first row of the table scan
SelectClassLimit1(rows, o) == SelectObject(rows, o)[1].class

\* (mutant) the UPDATE of combine_objects without its class=(?) assignment
UpdateObjectOnly(rows, to_id, c, from_id) ==
  [i \in 1..Len(rows) |->
     IF rows[i].object = from_id
       THEN [rows[i] EXCEPT !.object = to_id] ELSE rows[i]]

\* UPDATE frames SET object=(?), class=(?) WHERE object=(?)
UpdateObjectClass(rows, to_id, c, from_id) ==
  [i \in 1..Len(rows) |->
     IF rows[i].object = from_id
       THEN [rows[i] EXCEPT !.object = to_id, !.class = c] ELSE rows[i]]

\* the messages of the ValueErrors combine_objects raises
ErrInvalidId == "ValueError: object ID's must be positive integers"
ErrNoFrom == "ValueError: Error: \"From ID\" is not exist"
ErrNoTo == "ValueError: Error: \"To ID\" is not exist"
ErrShared == "ValueError: Error: There are frames with both objects"
ErrIllegalName == "ValueError: Illegal filename"

\* (mutant) the id check written < 0, so that id 0 passes it
CombineOutcomeZeroPasses(rows, from_id, to_id) ==
  IF (from_id < 0) \/ (to_id < 0) THEN ErrInvalidId
  ELSE IF SelectObject(rows, from_id) = <<>> THEN ErrNoFrom
  ELSE IF SelectObject(rows, to_id) = <<>> THEN ErrNoTo
  ELSE IF SelectShared(rows, from_id, to_id) # <<>> THEN ErrShared
  ELSE "ok"

\* (mutant) the checks without the shared-frame check
CombineOutcomeNoSharedCheck(rows, from_id, to_id) ==
  IF (from_id <= 0) \/ (to_id <= 0) THEN ErrInvalidId
  ELSE IF SelectObject(rows, from_id) = <<>> THEN ErrNoFrom
  ELSE IF SelectObject(rows, to_id) = <<>> THEN ErrNoTo
  ELSE "ok"

\* the checks of combine_objects, in the order the code makes them
CombineOutcome(rows, from_id, to_id) ==
  IF (from_id <= 0) \/ (to_id <= 0) THEN ErrInvalidId
  ELSE IF SelectObject(rows, from_id) = <<>> THEN ErrNoFrom
  ELSE IF SelectObject(rows, to_id) = <<>> THEN ErrNoTo
  ELSE IF SelectShared(rows, from_id, to_id) # <<>> THEN ErrShared
  ELSE "ok"

\* the frames table combine_objects leaves behind
CombineFrames(rows, from_id, to_id) ==
  UpdateObjectClass(rows, to_id, SelectClassLimit1(rows, to_id), from_id)

\* SELECT * FROM frames where object=(?), then column 0 of every row
GetFramesIndexesOfId(rows, o) ==
  [i \in 1..Len(SelectObject(rows, o)) |-> SelectObject(rows, o)[i].frame]

\* the optional obj_id argument of get: {} for None, {o} for object o
NoObject == {}

\* SELECT * FROM frames WHERE frame=(?) [and object=(?)]
SelectFrame(rows, f, o) ==
  IF o = NoObject
    THEN SelectSeq(rows, LAMBDA r : r.frame = f)
    ELSE SelectSeq(rows, LAMBDA r : r.frame = f /\ r.object \in o)

\* (mutant) the object of the newest row instead of the largest
SelectLastObject(rows) ==
  IF rows = <<>> THEN <<>> ELSE <<rows[Len(rows)].object>>

\* SELECT max(object) from frames: one row, <<>> standing for its NULL
SelectMaxObject(rows) ==
  IF rows = <<>> THEN <<>>
  ELSE <<CHOOSE m \in {r.object : r \in Range(rows)} :
           \A r \in Range(rows) : r.object <= m>>

\* UPDATE session SET current_frame=(?)
UpdateSession(session, n) ==
  [i \in 1..Len(session) |-> [session[i] EXCEPT !.current_frame = n]]

\* ------------------------------------------------------------------ state
VARIABLES
  fs,             \* file name -> committed tables of the file, or NoFile
  live,           \* an Annotation object exists (its constructor returned)
  filename,       \* self._filename
  video_filename, \* self._video_filename
  cap,            \* self.cap is an opened capture
  num_frames,     \* self._num_frames
  current_frame,  \* self._current_frame
  conn,           \* self.connection: "none", "open" or "closed"
  connFile,       \* the file the connection was opened on
  linked,         \* that file is still the one its name reaches
  tx,             \* the tables seen through the connection
  op,             \* the call made last
  result,         \* how it ended: "ok" or the exception raised
  removed_stale,  \* that call found a working file in its way and removed it
  ret             \* what it returned or wrote out, <<>> when nothing

vars == <<fs, live, filename, video_filename, cap, num_frames, current_frame,
          conn, connFile, linked, tx, op, result, removed_stale, ret>>

\* the state as one record, so that a method can call another
Cur ==
  [fs |-> fs, live |-> live, filename |-> filename,
   video_filename |-> video_filename, cap |-> cap, num_frames |-> num_frames,
   current_frame |-> current_frame, conn |-> conn, connFile |-> connFile,
   linked |-> linked, tx |-> tx, result |-> result, removed |-> FALSE,
   ret |-> <<>>]

Become(s, name) ==
  /\ op' = name
  /\ result' = s.result
  /\ tx' = s.tx
  /\ fs' = s.fs
  /\ live' = s.live
  /\ filename' = s.filename
  /\ video_filename' = s.video_filename
  /\ cap' = s.cap
  /\ num_frames' = s.num_frames
  /\ current_frame' = s.current_frame
  /\ conn' = s.conn
  /\ connFile' = s.connFile
  /\ linked' = s.linked
  /\ removed_stale' = s.removed
  /\ ret' = s.ret

\* the fields __init__ sets before it looks at the file; also what is left
\* when the object is gone
Unbound(files, res) ==
  [fs |-> files, live |-> FALSE, filename |-> None, video_filename |-> None,
   cap |-> FALSE, num_frames |-> 0, current_frame |-> 0, conn |-> "none",
   connFile |-> None, linked |-> FALSE, tx |-> NoFile, result |-> res,
   removed |-> FALSE, ret |-> <<>>]

\* os.path.exists for an annotation path
Exists(files, p) == files[Abs(p)].kind # "nofile"

\* cursor.execute of a SELECT: fails only on a closed connection
ReadStatus(s) == IF s.conn # "open" THEN "ProgrammingError" ELSE "ok"

\* cursor.execute of INSERT, UPDATE or DELETE: sqlite refuses to write a
\* database whose file was unlinked under the connection
WriteStatus(s) ==
  IF s.conn # "open" THEN "ProgrammingError"
  ELSE IF ~s.linked THEN "OperationalError"
  ELSE "ok"

\* connection.commit()
Commit(s) ==
  IF s.conn = "open" /\ s.linked
    THEN [s EXCEPT !.fs[s.connFile] = s.tx]
    ELSE s

\* a store method: one write statement and, when the method commits, the
\* commit that follows it
Write(s, frames, commits) ==
  IF WriteStatus(s) # "ok" THEN [s EXCEPT !.result = WriteStatus(s)]
  ELSE IF commits
    THEN Commit([s EXCEPT !.tx.frames = frames, !.result = "ok"])
    ELSE [s EXCEPT !.tx.frames = frames, !.result = "ok"]

\* ---------------------------------------------------------- store methods
AddClassFn(s, class_name) ==
  IF WriteStatus(s) # "ok" THEN [s EXCEPT !.result = WriteStatus(s)]
  ELSE IF class_name \in Range(s.tx.classes)
    THEN [s EXCEPT !.result = "IntegrityError"]
    ELSE [s EXCEPT !.tx.classes = Append(@, class_name), !.result = "ok"]

AddFn(s, f, o, c, ct, fin) ==
  Write(s, InsertFrame(s.tx.frames, f, o, c, ct, fin), TRUE)

RemoveFn(s, o, f) == Write(s, DeleteFrames(s.tx.frames, o, f), TRUE)

ChangeClassFn(s, o, c) == Write(s, UpdateClass(s.tx.frames, o, c), TRUE)

FinalizeObjectFn(s, o, f) == Write(s, UpdateFinalObject(s.tx.frames, o, f), TRUE)

FinalizeFrameFn(s, f) == Write(s, UpdateFinalFrame(s.tx.frames, f), TRUE)

CombineObjectsFn(s, from_id, to_id) ==
  LET outcome == CombineOutcome(s.tx.frames, from_id, to_id) IN
  IF outcome = ErrInvalidId THEN [s EXCEPT !.result = outcome]
  ELSE IF ReadStatus(s) # "ok" THEN [s EXCEPT !.result = ReadStatus(s)]
  ELSE IF outcome # "ok" THEN [s EXCEPT !.result = outcome]
  ELSE Write(s, CombineFrames(s.tx.frames, from_id, to_id), TRUE)

\* (mutant) set_frame without its commit
SetFrameNoCommit(s, frame_number) ==
  IF frame_number < 1 \/ frame_number > s.num_frames
    THEN [s EXCEPT !.result = "ok"]
  ELSE IF WriteStatus(s) # "ok"
    THEN [s EXCEPT !.current_frame = frame_number, !.result = WriteStatus(s)]
    ELSE [s EXCEPT !.current_frame = frame_number,
                   !.tx.session = UpdateSession(@, frame_number),
                   !.result = "ok"]

SetFrameFn(s, frame_number) ==
  IF frame_number < 1 \/ frame_number > s.num_frames
    THEN [s EXCEPT !.result = "ok"]
  ELSE IF WriteStatus(s) # "ok"
    THEN [s EXCEPT !.current_frame = frame_number, !.result = WriteStatus(s)]
    ELSE Commit([s EXCEPT !.current_frame = frame_number,
                          !.tx.session = UpdateSession(@, frame_number),
                          !.result = "ok"])

\* ---------------------------------------------------------- query methods
\* (mutant) get that drops its obj_id filter
GetFnAnyObject(s, frame_number, obj_id) ==
  IF ReadStatus(s) # "ok" THEN [s EXCEPT !.result = ReadStatus(s)]
  ELSE [s EXCEPT !.result = "ok",
                 !.ret = SelectFrame(s.tx.frames, frame_number, NoObject)]

GetFn(s, frame_number, obj_id) ==
  IF ReadStatus(s) # "ok" THEN [s EXCEPT !.result = ReadStatus(s)]
  ELSE [s EXCEPT !.result = "ok",
                 !.ret = SelectFrame(s.tx.frames, frame_number, obj_id)]

\* int(None) raises the TypeError that get_max_id turns into 0
GetMaxIdFn(s) ==
  IF ReadStatus(s) # "ok" THEN [s EXCEPT !.result = ReadStatus(s)]
  ELSE IF SelectMaxObject(s.tx.frames) = <<>>
    THEN [s EXCEPT !.result = "ok", !.ret = <<0>>]
    ELSE [s EXCEPT !.result = "ok", !.ret = SelectMaxObject(s.tx.frames)]

GetFramesIndexesOfIdFn(s, obj_id) ==
  IF ReadStatus(s) # "ok" THEN [s EXCEPT !.result = ReadStatus(s)]
  ELSE [s EXCEPT !.result = "ok",
                 !.ret = GetFramesIndexesOfId(s.tx.frames, obj_id)]

IsFileSavedFn(s) ==
  [s EXCEPT !.result = "ok",
            !.ret = <<s.filename # Abs(TEMP_WORKING_FILENAME)>>]

\* ------------------------------------------------------------------ export
\* qt_image.fill(0)
Black == <<0, 0, 0>>

\* the pixels of a QImage(shape[0], shape[1]): x across, y down
Pixels(shape) == (0..(shape[1] - 1)) \X (0..(shape[2] - 1))

\* list(zip(points[::2], points[1::2])): the (x, y) couples
Couples(points) ==
  [k \in 1..(Len(points) \div 2) |-> <<points[2 * k - 1], points[2 * k]>>]

\* the pixels painter.drawPolygon paints for a contour: those between its
\* vertices, in one colour and without blending
Polygon(shape, text) ==
  LET pts == Range(Couples(ParsePoints(text)))
  IN {p \in Pixels(shape) :
        /\ \E a \in pts : a[1] <= p[1]
        /\ \E a \in pts : a[1] >= p[1]
        /\ \E a \in pts : a[2] <= p[2]
        /\ \E a \in pts : a[2] >= p[2]}

RECURSIVE Paint(_, _, _, _)
\* the canvas after the records are drawn in order, later over earlier
Paint(canvas, shape, records, colormap) ==
  IF records = <<>> THEN canvas
  ELSE LET contour == Polygon(shape, Head(records).contour)
           rgb == colormap[Head(records).object]
       IN Paint([p \in Pixels(shape) |-> IF p \in contour THEN rgb ELSE canvas[p]],
                shape, Tail(records), colormap)

\* frame_colors: the colour of every record drawn, one entry per record
FrameColors(records, colormap) ==
  [k \in 1..Len(records) |-> colormap[records[k].object]]

\* dirname + '/' + filename + str(f) + suffix
ArtifactName(dirname, prefix, f, suffix) ==
  dirname \o <<"/">> \o prefix \o Str(f) \o suffix

\* mask = cv2.inRange(cv_image, c, c) / 255;
\* result += inverse_colormap[tuple(c)] * mask     (16-bit unsigned)
Accumulate(result_img, cv_image, c, id) ==
  [p \in DOMAIN result_img |->
     (result_img[p] + id * (IF cv_image[p] = c THEN 1 ELSE 0)) % 65536]

RECURSIVE DecodeWrites(_, _, _, _, _, _)
\* the loop over frame_colors: each pass adds one colour's ids and rewrites
\* the file
DecodeWrites(result_img, cv_image, colors, inverse_colormap, i, name) ==
  IF colors = <<>> THEN <<>>
  ELSE LET next == Accumulate(result_img, cv_image, Head(colors),
                              inverse_colormap[Head(colors)])
       IN <<[index |-> i, name |-> name, image |-> next]>>
          \o DecodeWrites(next, cv_image, Tail(colors), inverse_colormap,
                          i, name)

TIFF == <<".", "t", "i", "f", "f">>
PNG == <<".", "p", "n", "g">>

\* (mutant) the body of the export loop without its test for an empty frame
FrameWritesNoSkip(rows, shape, dirname, prefix, i, f, colormap, inverse_colormap, suffix) ==
  LET records == SelectFrame(rows, f, NoObject)
      blank == [p \in Pixels(shape) |-> Black]
      qt_image == Paint(blank, shape, records, colormap)
  IN IF suffix = TIFF /\ records # <<>>
       THEN DecodeWrites([p \in Pixels(shape) |-> 0], qt_image,
                         FrameColors(records, colormap), inverse_colormap, i,
                         ArtifactName(dirname, prefix, f, TIFF))
       ELSE <<[index |-> i, name |-> ArtifactName(dirname, prefix, f, PNG),
               image |-> qt_image]>>

\* one pass of the export loop: what it writes for frames[i] = f
FrameWrites(rows, shape, dirname, prefix, i, f, colormap, inverse_colormap, suffix) ==
  LET records == SelectFrame(rows, f, NoObject)
      blank == [p \in Pixels(shape) |-> Black]
      qt_image == Paint(blank, shape, records, colormap)
  IN IF records = <<>> THEN <<>>
     ELSE IF suffix = TIFF
       THEN DecodeWrites([p \in Pixels(shape) |-> 0], qt_image,
                         FrameColors(records, colormap), inverse_colormap, i,
                         ArtifactName(dirname, prefix, f, TIFF))
       ELSE <<[index |-> i, name |-> ArtifactName(dirname, prefix, f, PNG),
               image |-> qt_image]>>

RECURSIVE ExportWrites(_, _, _, _, _, _, _, _, _)
\* the passes for frames[i], frames[i + 1], ... in turn
ExportWrites(rows, shape, dirname, prefix, frames, i, colormap, inverse_colormap, suffix) ==
  IF i > Len(frames) THEN <<>>
  ELSE FrameWrites(rows, shape, dirname, prefix, i, frames[i], colormap,
                   inverse_colormap, suffix)
       \o ExportWrites(rows, shape, dirname, prefix, frames, i + 1,
                       colormap, inverse_colormap, suffix)

\* export: only get touches the database, no statement writes
ExportFn(s, shape, dirname, prefix, frames, colormap, inverse_colormap, suffix) ==
  IF frames # <<>> /\ ReadStatus(s) # "ok"
    THEN [s EXCEPT !.result = ReadStatus(s)]
    ELSE [s EXCEPT !.result = "ok",
                   !.ret = ExportWrites(s.tx.frames, shape, dirname, prefix,
                                        frames, 1, colormap, inverse_colormap,
                                        suffix)]

\* ------------------------------------------------------- session methods
OpenVideoFn(s, path, v) ==
  IF v[1] # "frames"
    THEN [s EXCEPT !.cap = FALSE, !.result = "VideoLoadError"]
    ELSE [s EXCEPT !.cap = TRUE, !.num_frames = v[2],
                   !.video_filename = path, !.result = "ok"]

\* lite.connect(path): a new connection on the file the path names
Connect(s, path) ==
  [s EXCEPT !.conn = "open", !.connFile = Abs(path), !.linked = TRUE,
            !.tx = s.fs[Abs(path)]]

\* os.remove(path), which also pulls the file from under a connection on it
Remove(s, path) ==
  [s EXCEPT !.fs[Abs(path)] = NoFile,
            !.linked = IF s.connFile = Abs(path) THEN FALSE ELSE @]

\* create: lite.connect makes the file when there is none; CREATE TABLE
\* fails on a file that already holds the tables or is not a database
CreateFn(s, video, annotation, v) ==
  IF v[1] = "missing" THEN [s EXCEPT !.result = "VideoLoadError"]
  ELSE
    LET opened == OpenVideoFn(s, video, v)
        bound == [opened EXCEPT !.current_frame = 1, !.filename = annotation]
        made == Connect([bound EXCEPT !.fs[Abs(annotation)] = EmptyDb],
                        annotation)
    IN IF opened.result # "ok" THEN opened
       ELSE IF s.fs[Abs(annotation)].kind = "db"
         THEN [Connect(bound, annotation) EXCEPT !.result = "OperationalError"]
       ELSE IF s.fs[Abs(annotation)].kind = "garbage"
         THEN [Connect(bound, annotation) EXCEPT !.result = "DatabaseError"]
       ELSE [made EXCEPT
               !.tx.session = Append(@, [video_file |-> video,
                                         current_frame |-> 1]),
               !.result = "ok"]

LoadFn(s, path, v) ==
  LET c == Connect(s, path) IN
  IF c.tx.kind # "db" THEN [c EXCEPT !.result = "AnnotationFileError"]
  ELSE IF c.tx.session = <<>> THEN [c EXCEPT !.result = "TypeError"]
  ELSE
    LET params == c.tx.session[1]
        opened == OpenVideoFn(c, params.video_file, v)
    IN IF opened.result # "ok" THEN opened
       ELSE SetFrameFn([opened EXCEPT !.filename = path], params.current_frame)

\* (mutant) __init__ without the removal of a stale working file
InitFnKeepsStale(s, path, v) ==
  LET blank == Unbound(s.fs, "ok")
      found == IF path \in AtcPaths THEN Exists(s.fs, path) ELSE v[1] # "missing"
      temp_filename == Cwd \o TEMP_WORKING_FILENAME
      built ==
        IF Extension(path) = SUFFIX THEN LoadFn(blank, path, v)
        ELSE CreateFn(blank, path, temp_filename, v)
  IN IF ~found THEN Unbound(s.fs, "AnnotationFileError")
     ELSE IF built.result # "ok" THEN Unbound(built.fs, built.result)
     ELSE [built EXCEPT !.live = TRUE]

\* Annotation(filename): the object exists only when __init__ returns
InitFn(s, path, v) ==
  LET blank == Unbound(s.fs, "ok")
      found == IF path \in AtcPaths THEN Exists(s.fs, path) ELSE v[1] # "missing"
      temp_filename == Cwd \o TEMP_WORKING_FILENAME
      built ==
        IF Extension(path) = SUFFIX THEN LoadFn(blank, path, v)
        ELSE IF Exists(s.fs, temp_filename)
          THEN CreateFn([Remove(blank, temp_filename) EXCEPT !.removed = TRUE],
                        path, temp_filename, v)
          ELSE CreateFn(blank, path, temp_filename, v)
  IN IF ~found THEN Unbound(s.fs, "AnnotationFileError")
     ELSE IF built.result # "ok" THEN Unbound(built.fs, built.result)
     ELSE [built EXCEPT !.live = TRUE]

CloseFn(s) ==
  IF s.conn = "none" THEN [s EXCEPT !.result = "ok"]
  ELSE [s EXCEPT !.conn = "closed", !.tx = NoFile, !.result = "ok"]

ExitFn(s) ==
  IF s.conn # "open" THEN [s EXCEPT !.result = "ProgrammingError"]
  ELSE [Commit(s) EXCEPT !.result = "ok"]

\* shutil.copy(src, dst)
CopyFn(s, src, dst) ==
  IF ~Exists(s.fs, src) THEN [s EXCEPT !.result = "FileNotFoundError"]
  ELSE IF Abs(src) = Abs(dst) THEN [s EXCEPT !.result = "SameFileError"]
  ELSE [s EXCEPT !.fs[Abs(dst)] = s.fs[Abs(src)], !.result = "ok"]

SaveFn(s, path, v) ==
  IF path = s.filename THEN [s EXCEPT !.result = "ok"]
  ELSE IF path = TEMP_WORKING_FILENAME THEN [s EXCEPT !.result = ErrIllegalName]
  ELSE IF s.conn # "open" THEN [s EXCEPT !.result = "ProgrammingError"]
  ELSE
    LET copied == CopyFn(CloseFn(Commit(s)), s.filename, path)
        cleaned == IF s.filename = TEMP_WORKING_FILENAME
                     THEN Remove(copied, s.filename) ELSE copied
        loaded == LoadFn(cleaned, path, v)
    IN IF copied.result # "ok" THEN copied
       ELSE IF loaded.result # "ok" THEN loaded
       ELSE IF Exists(loaded.fs, TEMP_WORKING_FILENAME)
         THEN Remove(loaded, TEMP_WORKING_FILENAME)
         ELSE loaded

\* ---------------------------------------------------------------- actions
Construct(path, v) ==
  /\ ~live
  /\ Become(InitFn(Cur, path, v), "init")

AddClass(class_name) ==
  /\ live
  /\ Become(AddClassFn(Cur, class_name), "add_class")

Add(f, o, c, ct, fin) ==
  /\ live
  /\ Len(tx.frames) < MaxRows
  /\ Become(AddFn(Cur, f, o, c, ct, fin), "add")

Remove1(o, f) ==
  /\ live
  /\ Become(RemoveFn(Cur, o, f), "remove")

ChangeClass(o, c) ==
  /\ live
  /\ Become(ChangeClassFn(Cur, o, c), "change_class")

FinalizeObject(o, f) ==
  /\ live
  /\ Become(FinalizeObjectFn(Cur, o, f), "finalize_object")

FinalizeFrame(f) ==
  /\ live
  /\ Become(FinalizeFrameFn(Cur, f), "finalize_frame")

CombineObjects(from_id, to_id) ==
  /\ live
  /\ Become(CombineObjectsFn(Cur, from_id, to_id), "combine_objects")

SetFrame(n) ==
  /\ live
  /\ Become(SetFrameFn(Cur, n), "set_frame")

Save(path, v) ==
  /\ live
  /\ Become(SaveFn(Cur, path, v), "save")

Close ==
  /\ live
  /\ Become(CloseFn(Cur), "close")

Exit ==
  /\ live
  /\ Become(ExitFn(Cur), "exit")

Get(f, o) ==
  /\ live
  /\ Become(GetFn(Cur, f, o), "get")

GetMaxId ==
  /\ live
  /\ Become(GetMaxIdFn(Cur), "get_max_id")

GetFramesIndexes(o) ==
  /\ live
  /\ Become(GetFramesIndexesOfIdFn(Cur, o), "get_frames_indexes_of_id")

IsFileSaved ==
  /\ live
  /\ Become(IsFileSavedFn(Cur), "is_file_saved")

Export(shape, dirname, prefix, frames, colormap, inverse_colormap, suffix) ==
  /\ live
  /\ Become(ExportFn(Cur, shape, dirname, prefix, frames, colormap,
                     inverse_colormap, suffix), "export")

\* the process ends (or the object is dropped) without another call: the
\* connection goes away with whatever it had not committed
Crash ==
  /\ live
  /\ Become(Unbound(fs, "ok"), "crash")

\* the environment: while no session is open, a file that exists is
\* overwritten with something that is not a database
Damage(p) ==
  /\ ~live
  /\ Exists(fs, p)
  /\ fs' = [fs EXCEPT ![Abs(p)] = Garbage]
  /\ op' = "damage"
  /\ result' = "ok"
  /\ removed_stale' = FALSE
  /\ ret' = <<>>
  /\ UNCHANGED <<live, filename, video_filename, cap, num_frames,
                 current_frame, conn, connFile, linked, tx>>

Init ==
  /\ fs = [f \in Files |-> NoFile]
  /\ live = FALSE
  /\ filename = None
  /\ video_filename = None
  /\ cap = FALSE
  /\ num_frames = 0
  /\ current_frame = 0
  /\ conn = "none"
  /\ connFile = None
  /\ linked = FALSE
  /\ tx = NoFile
  /\ op = "none"
  /\ result = "ok"
  /\ removed_stale = FALSE
  /\ ret = <<>>

\* the store of one session: created from a video, then used
NextStore ==
  \/ Construct("v.mp4", <<"frames", MaxFrames>>)
  \/ \E f \in FrameNumbers, o \in ObjectIds, c \in ClassNames,
        ct \in Contours : Add(f, o, c, ct, 0)
  \/ \E o \in ObjectIds, f \in {NoFrame} \cup {{n} : n \in FrameNumbers} :
        Remove1(o, f)
  \/ \E o \in ObjectIds, c \in ClassNames : ChangeClass(o, c)
  \/ \E a \in MergeIds, b \in MergeIds : CombineObjects(a, b)

SpecStore == Init /\ [][NextStore]_vars

\* the inputs of the query runs, where what is read back is what varies
QueryIds == {1, 2}
QueryClasses == {"car"}
QueryContours == {<<0, 0, 1, 0>>, <<1, 0, 2, 0>>}

\* the inputs of export
Shape == <<3, 1>>
Dirname == <<"d">>
Prefix == <<"f">>
ExportLists == {<<1, 2>>, <<2, 1>>, <<2>>, <<1, 1>>}
Suffixes == {TIFF, PNG}

\* colormaps: one colour per object id, no colour twice, none the colour of
\* the empty canvas
ColorMaps ==
  {[id \in 0..2 |-> <<10 * (id + 1), 0, 0>>],
   [id \in 0..2 |-> <<0, 2 - id, 255>>]}

\* the dict that takes each colour of a colormap back to its id
InverseColormap(colormap) ==
  [c \in {colormap[id] : id \in DOMAIN colormap} |->
     CHOOSE id \in DOMAIN colormap : colormap[id] = c]

\* the store of one session and the calls that read it
NextQuery ==
  \/ Construct("v.mp4", <<"frames", MaxFrames>>)
  \/ \E c \in QueryClasses : AddClass(c)
  \/ \E f \in FrameNumbers, o \in QueryIds, c \in QueryClasses,
        ct \in QueryContours : Add(f, o, c, ct, 1)
  \/ \E o \in QueryIds, f \in {NoFrame} \cup {{n} : n \in FrameNumbers} :
        Remove1(o, f)
  \/ \E a \in QueryIds, b \in QueryIds : CombineObjects(a, b)
  \/ \E f \in FrameNumbers, o \in {NoObject} \cup {{n} : n \in ObjectIds} :
        Get(f, o)
  \/ GetMaxId
  \/ \E o \in ObjectIds : GetFramesIndexes(o)

SpecQuery == Init /\ [][NextQuery]_vars

\* the store of one session and its export
NextExport ==
  \/ Construct("v.mp4", <<"frames", MaxFrames>>)
  \/ \E f \in FrameNumbers, o \in QueryIds, c \in QueryClasses,
        ct \in QueryContours :
        Len(tx.frames) < ExportRows /\ Add(f, o, c, ct, 1)
  \/ \E o \in QueryIds : Remove1(o, NoFrame)
  \/ \E frames \in ExportLists, colormap \in ColorMaps, suffix \in Suffixes :
        Export(Shape, Dirname, Prefix, frames, colormap,
               InverseColormap(colormap), suffix)

SpecExport == Init /\ [][NextExport]_vars

\* the frames of the merge runs: one more than two objects can fill together
MergeFrames == {1, 2, 3}

\* the store of one session whose caller never adds to an occupied pair
NextMerge ==
  \/ Construct("v.mp4", <<"frames", MaxFrames>>)
  \/ \E f \in MergeFrames, o \in QueryIds, c \in ClassNames, ct \in Contours :
        /\ \A r \in Range(tx.frames) : ~(r.frame = f /\ r.object = o)
        /\ Add(f, o, c, ct, 0)
  \/ \E o \in QueryIds : Remove1(o, NoFrame)
  \/ \E o \in QueryIds, c \in ClassNames : ChangeClass(o, c)
  \/ \E a \in QueryIds, b \in QueryIds : CombineObjects(a, b)
  \/ \E o \in QueryIds : GetFramesIndexes(o)
  \/ \E o \in QueryIds, f \in MergeFrames : FinalizeObject(o, f)
  \/ \E f \in MergeFrames : FinalizeFrame(f)

SpecMerge == Init /\ [][NextMerge]_vars

\* the life of the object: its files, its videos and its cursor
Next ==
  \/ \E p \in VideoPaths \cup AtcPaths, v \in VideoOutcomes : Construct(p, v)
  \/ \E c \in SessionClasses : AddClass(c)
  \/ \E f \in SessionFrames, o \in SessionIds, c \in SessionClasses,
        ct \in Contours :
        Len(tx.frames) < SessionRows /\ Add(f, o, c, ct, 0)
  \/ \E o \in SessionIds, f \in {NoFrame} \cup {{n} : n \in SessionFrames} :
        Remove1(o, f)
  \/ \E o \in SessionIds, c \in SessionClasses : ChangeClass(o, c)
  \/ \E a \in {0} \cup SessionIds, b \in {0} \cup SessionIds :
        CombineObjects(a, b)
  \/ \E n \in 0..(MaxFrames + 1) : SetFrame(n)
  \/ \E p \in AtcPaths, v \in VideoOutcomes : Save(p, v)
  \/ Close
  \/ Exit
  \/ Crash
  \/ \E p \in AtcPaths : Damage(p)
  \/ IsFileSaved

Spec == Init /\ [][Next]_vars

\* ================================================================ claims
\* what the claims say about a frames table, stated on the rows themselves
FramesOf(rows, o) == {r.frame : r \in {q \in Range(rows) : q.object = o}}
ClassesOf(rows, o) == {r.class : r \in {q \in Range(rows) : q.object = o}}
HasRecords(rows, o) == \E r \in Range(rows) : r.object = o
ShareFrame(rows, a, b) == FramesOf(rows, a) \cap FramesOf(rows, b) # {}
OtherRecords(rows, a, b) == SelectSeq(rows, LAMBDA r : r.object \notin {a, b})

\* the session is bound: the object exists and its handle is open on a file
\* that is still in place
Bound == live /\ conn = "open" /\ linked

\* C1: in every store state reached from create by add, remove, change_class
\* and combine_objects, no two frame records share a (frame, object_id) pair.
\* The code refutes it: add inserts without looking.
C1_NoDuplicateOccupancy ==
  \A i, j \in 1..Len(tx.frames) :
    (tx.frames[i].frame = tx.frames[j].frame
       /\ tx.frames[i].object = tx.frames[j].object) => i = j

\* C2: for positive ids a and b that both have records and share no frame,
\* combine_objects(a, b) succeeds and leaves a without frames, b on the union
\* of the frames both occupied, every record keyed by b with a class b had
\* before the merge, and the records of every other id as they were.
C2_MergeUnion ==
  [][op' = "combine_objects" => \A a \in MergeIds, b \in MergeIds :
       (/\ a > 0 /\ b > 0
        /\ HasRecords(tx.frames, a) /\ HasRecords(tx.frames, b)
        /\ ~ShareFrame(tx.frames, a, b)
        /\ CombineObjects(a, b))
       => /\ result' = "ok"
          /\ GetFramesIndexesOfId(tx'.frames, a) = <<>>
          /\ FramesOf(tx'.frames, b)
               = FramesOf(tx.frames, a) \cup FramesOf(tx.frames, b)
          /\ Len(tx'.frames) = Len(tx.frames)
          /\ ClassesOf(tx'.frames, b) \subseteq ClassesOf(tx.frames, b)
          /\ OtherRecords(tx'.frames, a, b) = OtherRecords(tx.frames, a, b)]_vars

\* C2 witness: a merge went through, the target now sits on two frames and a
\* record of a third object stands beside it
C2_Witness ==
  /\ op = "combine_objects" /\ result = "ok"
  /\ \E b \in ObjectIds :
       /\ Cardinality(FramesOf(tx.frames, b)) = 2
       /\ \E r \in Range(tx.frames) : r.object # b

\* the outcome C3 expects: the first failing check in the stated order
ExpectedOutcomes(rows, a, b) ==
  IF a <= 0 \/ b <= 0 THEN {ErrInvalidId}
  ELSE IF ~HasRecords(rows, a) \/ ~HasRecords(rows, b) THEN {ErrNoFrom, ErrNoTo}
  ELSE IF ShareFrame(rows, a, b) THEN {ErrShared}
  ELSE {"ok"}

\* C3: combine_objects(from_id, to_id) ends as the first failing check says:
\* invalid id if either id is <= 0, else unknown object if either id has no
\* record, else overlapping occupancy if a frame holds both, else success.
\* (The code raises ValueError for all three; its message tells them apart.)
\* Stated by contraposition: no call combine_objects(a, b) ends otherwise.
C3_CheckOrder ==
  [][op' = "combine_objects" => \A a \in MergeIds, b \in MergeIds :
       result' \notin ExpectedOutcomes(tx.frames, a, b)
         => ~CombineObjects(a, b)]_vars

\* C3 witness: a merge was refused at the last check, both ids having records
C3_Witness ==
  /\ op = "combine_objects" /\ result = ErrShared
  /\ \E a \in ObjectIds, b \in ObjectIds :
       a # b /\ ShareFrame(tx.frames, a, b)

\* C4: a rejected combine_objects (invalid id, unknown object, or both ids in
\* one frame) leaves the records, the class vocabulary, the session row, the
\* cursor and the file exactly as they were.
\* Stated by contraposition: no such call ends without an error or with any of
\* them changed.
C4_RejectedMergeChangesNothing ==
  [][op' = "combine_objects" => \A a \in MergeIds, b \in MergeIds :
       (/\ \/ a <= 0 \/ b <= 0
           \/ ~HasRecords(tx.frames, a) \/ ~HasRecords(tx.frames, b)
           \/ ShareFrame(tx.frames, a, b)
        /\ ~(/\ result' # "ok"
             /\ tx' = tx
             /\ fs' = fs
             /\ current_frame' = current_frame))
       => ~CombineObjects(a, b)]_vars

\* C4 witness: a merge of two objects that share one frame and not another
\* was refused
C4_Witness ==
  /\ op = "combine_objects" /\ result # "ok"
  /\ \E a \in ObjectIds, b \in ObjectIds :
       /\ a # b /\ ShareFrame(tx.frames, a, b)
       /\ FramesOf(tx.frames, a) # FramesOf(tx.frames, b)

\* the calls the spec counts as mutating the store ("init" is the constructor,
\* which runs create or load)
MutatingCalls ==
  {"init", "add_class", "add", "remove", "change_class", "finalize_object",
   "finalize_frame", "combine_objects", "set_frame"}

\* C5: when a mutating call has returned, the file holds what the store shows,
\* so that losing the handle then loses nothing.
\* The code refutes it: create leaves its session row, and add_class its class,
\* in a transaction nobody commits.
C5_DurableOnReturn ==
  (Bound /\ result = "ok" /\ op \in MutatingCalls) => fs[connFile] = tx

\* C6: in every state of a live session, 1 <= current_frame() <= num_frames().
\* The code refutes it: create sets the cursor to 1 whatever the video holds,
\* and load keeps the constructor's 0 when the stored cursor is out of range.
C6_CursorInRange ==
  live => (1 <= current_frame /\ current_frame <= num_frames)

\* the cursors a database's session table holds
SessionCursors(db) == {r.current_frame : r \in Range(db.session)}

\* C7: on a bound session, set_frame(n) with 1 <= n <= num_frames returns with
\* the in-memory cursor and the cursor in the file both n (the records are
\* untouched); with n outside that range it returns without an error and
\* leaves the cursor, the tables and the file as they were.
C7_SetFrame ==
  [][op' = "set_frame" => \A n \in 0..(MaxFrames + 1) :
       (Bound /\ SetFrame(n))
       => IF 1 <= n /\ n <= num_frames
            THEN /\ result' = "ok"
                 /\ current_frame' = n
                 /\ SessionCursors(fs'[connFile]) = {n}
                 /\ SessionCursors(tx') = {n}
                 /\ tx'.frames = tx.frames
            ELSE /\ result' = "ok"
                 /\ current_frame' = current_frame
                 /\ tx' = tx
                 /\ fs' = fs]_vars

\* C7 witness: set_frame has moved the cursor of a bound session off frame 1,
\* in memory and in the file
C7_Witness ==
  /\ Bound /\ op = "set_frame" /\ result = "ok"
  /\ current_frame = MaxFrames
  /\ SessionCursors(fs[connFile]) = {MaxFrames}

\* C8: close() commits before it releases the handle: what the store showed
\* just before close() is what the file holds after it (and so what a load
\* of the file reads back).
\* The code refutes it: close() only closes the connection.
C8_CloseCommits ==
  [][op' = "close" => ((Bound /\ Close) => fs'[connFile] = tx)]_vars

\* C9: a successful save(path), path being neither the current binding nor the
\* temporary location, leaves the session bound to path through an open
\* handle, the file at path and the store holding the tables the store showed
\* just before the call, and no temporary file if the session was bound to it.
\* The code refutes it: it copies the file self._filename names, which is not
\* the file the connection writes after an earlier save failed inside load.
C9_SaveRebinds ==
  [][op' = "save" => \A p \in NamedPaths, v \in VideoOutcomes :
       (/\ live /\ p # filename
        /\ result' = "ok"
        /\ Save(p, v))
       => /\ filename' = p
          /\ conn' = "open" /\ connFile' = Abs(p) /\ linked'
          /\ fs'[Abs(p)] = tx
          /\ tx' = tx
          /\ (Abs(filename) = TempFile => fs'[TempFile] = NoFile)]_vars

\* C10: on a bound session, save(path) with a path that names the temporary
\* working location (and is not the current binding, for which save does
\* nothing) fails with the illegal-name error and leaves the binding, the
\* handle and the files as they were.
\* The code refutes it: it compares path with the relative name only.
C10_SaveToTempRefused ==
  [][op' = "save" => \A p \in TempPaths, v \in VideoOutcomes :
       (Bound /\ p # filename /\ Save(p, v))
       => /\ result' = ErrIllegalName
          /\ filename' = filename
          /\ conn' = conn /\ connFile' = connFile /\ linked' = linked
          /\ fs' = fs]_vars

\* the error the code reports for a file that is not a database (line 172)
CorruptKind == "AnnotationFileError"

\* the file at a path offers no session to read: not a database, or a
\* database without a session row
Unreadable(p) == fs[Abs(p)].kind = "garbage" \/ fs[Abs(p)].session = <<>>

\* C11: opening an annotation path fails in three distinguishable ways and
\* leaves no session: a path with no file gives an error kind of its own
\* (never the one a corrupt file gives), a file that is not a database or has
\* no session row gives AnnotationFileError, and a recorded video that cannot
\* be opened gives the video error.
\* The code refutes it: the missing path raises AnnotationFileError as well,
\* and a file without a session row escapes as TypeError.
C11_LoadErrors ==
  [][op' = "init" => \A p \in AtcPaths, v \in VideoOutcomes :
       Construct(p, v)
       => /\ ~Exists(fs, p)
               => result' \notin {"ok", CorruptKind, "VideoLoadError"}
          /\ (Exists(fs, p) /\ Unreadable(p)) => result' = CorruptKind
          /\ (Exists(fs, p) /\ ~Unreadable(p) /\ v[1] # "frames")
               => result' = "VideoLoadError"
          /\ result' # "ok" => ~live']_vars

\* C12: a successful create(video_path) gives a session bound to the temporary
\* working file with no frame records, no classes, the video path recorded
\* and the cursor at 1, and a readable video always makes create succeed,
\* whatever lay at the temporary location before (nothing, the tables of an
\* earlier session, or a damaged file).
C12_CreateFresh ==
  [][op' = "init" => \A p \in VideoPaths, v \in VideoOutcomes :
       Construct(p, v)
       => /\ v[1] = "frames" => result' = "ok"
          /\ result' = "ok"
               => /\ live' /\ conn' = "open" /\ linked'
                  /\ connFile' = TempFile /\ Abs(filename') = TempFile
                  /\ tx'.frames = <<>> /\ tx'.classes = <<>>
                  /\ fs'[TempFile] = EmptyDb
                  /\ tx'.session = <<[video_file |-> p, current_frame |-> 1]>>
                  /\ video_filename' = p
                  /\ current_frame' = 1]_vars

\* C12 witness: create has succeeded after it removed the working file an
\* earlier session had left behind
C12_Witness ==
  /\ op = "init" /\ result = "ok" /\ live
  /\ removed_stale
  /\ Abs(filename) = TempFile
  /\ tx.frames = <<>>

\* python values of different types are never equal: a text and a list
PyText(text) == [type |-> "str", text |-> text, items |-> <<>>]
PyList(items) == [type |-> "list", text |-> <<>>, items |-> items]

\* the pair (f, o) holds no record
Unoccupied(rows, f, o) == \A r \in Range(rows) : ~(r.frame = f /\ r.object = o)

\* C13 as claimed: for a pair (frame, object_id) not yet occupied, add followed
\* by get(frame, object_id) returns exactly one record whose frame, object id,
\* class, contour and final flag equal the inserted values, and get(frame)
\* returns the records the frame held before plus that one.
\* The code refutes the contour: add stores, and get returns, the text
\* ' '.join(str(x)), not the list that was inserted.
C13_AddThenGet ==
  [][op' = "add" => \A f \in FrameNumbers, o \in QueryIds, c \in QueryClasses,
                       ct \in QueryContours :
       (/\ Bound /\ Unoccupied(tx.frames, f, o)
        /\ Add(f, o, c, ct, 1))
       => LET one == GetFn(Cur', f, {o}).ret
              all == GetFn(Cur', f, NoObject).ret
          IN /\ Len(one) = 1
             /\ one[1].frame = f /\ one[1].object = o /\ one[1].class = c
             /\ one[1].final = 1
             /\ PyText(one[1].contour) = PyList(ct)
             /\ all = Append(GetFn(Cur, f, NoObject).ret, one[1])]_vars

\* C13 as amended: the same, the contour of the returned record being the
\* text of the inserted contour (its integers in decimal, one blank between
\* them), from which the inserted list is parsed back.
C13_AddThenGetText ==
  [][op' = "add" => \A f \in FrameNumbers, o \in QueryIds, c \in QueryClasses,
                       ct \in QueryContours :
       (/\ Bound /\ Unoccupied(tx.frames, f, o)
        /\ Add(f, o, c, ct, 1))
       => LET one == GetFn(Cur', f, {o}).ret
              all == GetFn(Cur', f, NoObject).ret
          IN /\ GetFn(Cur', f, {o}).result = "ok"
             /\ Len(one) = 1
             /\ one[1].frame = f /\ one[1].object = o /\ one[1].class = c
             /\ one[1].final = 1
             /\ one[1].contour = JoinStr(ct)
             /\ ParsePoints(one[1].contour) = ct
             /\ all = Append(GetFn(Cur, f, NoObject).ret, one[1])]_vars

\* C13 witness: add has put a record on a free pair of a frame that already
\* held the record of another object, and get reads back the one and the two
C13_Witness ==
  /\ op = "add" /\ result = "ok" /\ tx.frames # <<>>
  /\ LET r == tx.frames[Len(tx.frames)]
     IN /\ Len(GetFn(Cur, r.frame, {r.object}).ret) = 1
        /\ Len(GetFn(Cur, r.frame, NoObject).ret) = 2

\* how many rows of a table are the record r
Count(rows, r) == Cardinality({i \in 1..Len(rows) : rows[i] = r})

\* the record is one that remove(o, f) is to delete
Matches(r, o, f) == r.object = o /\ (f = NoFrame \/ r.frame \in f)

\* C14: remove(object_id) deletes exactly the records of object_id, and
\* remove(object_id, frame) exactly those of object_id in that frame; every
\* other record stays (as many times as it was there, in the same order), the
\* class vocabulary, the session row and the cursor are unchanged, the file
\* holds the result, and when nothing matches the call raises no error and
\* the store is unchanged.
C14_RemoveExactly ==
  [][op' = "remove" => \A o \in QueryIds,
                          f \in {NoFrame} \cup {{n} : n \in FrameNumbers} :
       (Bound /\ Remove1(o, f))
       => /\ result' = "ok"
          /\ \A r \in Range(tx'.frames) : ~Matches(r, o, f)
          /\ \A r \in Range(tx.frames) :
                ~Matches(r, o, f) => Count(tx'.frames, r) = Count(tx.frames, r)
          /\ \A i, j \in 1..Len(tx'.frames) :
                i < j => \E k, l \in 1..Len(tx.frames) :
                           k < l /\ tx.frames[k] = tx'.frames[i]
                                 /\ tx.frames[l] = tx'.frames[j]
          /\ tx'.classes = tx.classes /\ tx'.session = tx.session
          /\ current_frame' = current_frame
          /\ fs'[connFile] = tx'
          /\ (\A r \in Range(tx.frames) : ~Matches(r, o, f)) => tx' = tx]_vars

\* C14 witness: after a remove the store still holds two records of one
\* object, in different frames, next to the class that was added
C14_Witness ==
  /\ op = "remove" /\ result = "ok"
  /\ tx.classes # <<>>
  /\ \E o \in QueryIds : Cardinality(FramesOf(tx.frames, o)) = 2

\* the records of a frame, in the order of the table
InFrame(rows, f) == SelectSeq(rows, LAMBDA r : r.frame = f)

\* C15: for every list of requested frames, export writes an artifact, named
\* directory/prefix + frame number + suffix, for exactly the requested frames
\* that hold a record and none for a requested frame without records, in the
\* order of the request, without an error, and leaves the records, the
\* classes, the session row, the cursor and the file as they were.
C15_ExportArtifacts ==
  [][op' = "export" => \A frames \in ExportLists, colormap \in ColorMaps,
                          suffix \in Suffixes :
       (/\ Bound
        /\ Export(Shape, Dirname, Prefix, frames, colormap,
                  InverseColormap(colormap), suffix))
       => /\ result' = "ok"
          /\ {w.index : w \in Range(ret')}
               = {i \in 1..Len(frames) : InFrame(tx.frames, frames[i]) # <<>>}
          /\ \A w \in Range(ret') :
                w.name = Dirname \o <<"/">> \o Prefix \o Str(frames[w.index])
                           \o suffix
          /\ \A k, l \in 1..Len(ret') : k < l => ret'[k].index <= ret'[l].index
          /\ tx' = tx /\ fs' = fs /\ current_frame' = current_frame]_vars

\* C15 witness: an export of two frames has skipped the first, which held no
\* record, and written the second
C15_Witness ==
  /\ op = "export" /\ result = "ok"
  /\ ret # <<>>
  /\ \A w \in Range(ret) : w.index = 2

\* the id C16 expects at a pixel: that of the record drawn last over it, 0
\* where no record of the frame was drawn
ExpectedId(records, p) ==
  LET over == {k \in 1..Len(records) : p \in Polygon(Shape, records[k].contour)}
  IN IF over = {} THEN 0
     ELSE records[CHOOSE k \in over : \A j \in over : j <= k].object

\* C16: in label-map export with a colormap that gives every object id its
\* own colour, the image left in each artifact holds at every pixel the id of
\* the object the canvas shows there and 0 where nothing was drawn: never a
\* sum of ids, never the id of an object not drawn there.
\* The code refutes it: it adds (+=) the id once per record, so a pixel shown
\* in the colour of an object with two records in the frame gets twice its id.
C16_DecodeRecoversIds ==
  [][op' = "export" => \A frames \in ExportLists, colormap \in ColorMaps :
       (/\ Bound
        /\ Export(Shape, Dirname, Prefix, frames, colormap,
                  InverseColormap(colormap), TIFF))
       => \A k \in 1..Len(ret') :
            (k = Len(ret') \/ ret'[k + 1].index # ret'[k].index)
            => \A p \in Pixels(Shape) :
                 ret'[k].image[p]
                   = ExpectedId(InFrame(tx.frames, frames[ret'[k].index]), p)]_vars

\* C17: get_max_id() returns the largest object id over all frame records,
\* and 0 when the store holds none; so get_max_id() + 1 is the id of no
\* record. The call changes nothing.
C17_MaxId ==
  [][op' = "get_max_id" =>
       ((Bound /\ GetMaxId)
        => /\ result' = "ok" /\ Len(ret') = 1
           /\ tx.frames = <<>> => ret'[1] = 0
           /\ tx.frames # <<>>
                => /\ \E r \in Range(tx.frames) : r.object = ret'[1]
                   /\ \A r \in Range(tx.frames) : r.object <= ret'[1]
           /\ \A r \in Range(tx.frames) : r.object # ret'[1] + 1
           /\ tx' = tx /\ fs' = fs)]_vars

\* C17 witness: get_max_id has returned an id that is not the one of the
\* newest record
C17_Witness ==
  /\ op = "get_max_id" /\ result = "ok"
  /\ tx.frames # <<>>
  /\ ret[1] > tx.frames[Len(tx.frames)].object

\* C18: on a bound session is_saved() is true exactly when the session is not
\* bound to the temporary working file, however the path it was opened
\* under spells that file.
\* The code refutes it: it compares the path as given with the absolute
\* spelling, so a session loaded from '.working.atc' counts as saved.
C18_IsSaved ==
  [][op' = "is_file_saved" =>
       ((Bound /\ IsFileSaved) => ret' = <<Abs(filename) # TempFile>>)]_vars

\* C19: get_frames_indexes_of_id(object_id) returns the frames that hold a
\* record of the object, each once and in increasing order whatever the order
\* the records came in, the empty sequence when there is none, and changes
\* nothing.
\* The code refutes it: the SELECT has no ORDER BY and no DISTINCT, so the
\* frames come in the order of the rows, one entry per row.
C19_FramesOfId ==
  [][op' = "get_frames_indexes_of_id" => \A o \in ObjectIds :
       (Bound /\ GetFramesIndexes(o))
       => /\ result' = "ok"
          /\ Range(ret') = FramesOf(tx.frames, o)
          /\ \A k, l \in 1..Len(ret') : k < l => ret'[k] < ret'[l]
          /\ tx' = tx /\ fs' = fs]_vars

\* all records of object o carry one class
UniformClass(rows, o) == Cardinality(ClassesOf(rows, o)) <= 1

\* C20 as claimed: after any successful combine_objects(from_id, to_id), in a
\* store reached by add, remove, change_class and merges, all records keyed
\* by to_id carry one and the same class.
\* The code refutes it: the merge rewrites only the records of from_id, so a
\* target whose own records differ in class still does afterwards.
C20_MergeUniformClass ==
  [][op' = "combine_objects" => \A a \in QueryIds, b \in QueryIds :
       (Bound /\ result' = "ok" /\ CombineObjects(a, b))
       => UniformClass(tx'.frames, b)]_vars

\* C20 as amended: when all records of to_id carried one class before a
\* successful combine_objects(from_id, to_id), all records keyed by to_id
\* carry that class after it.
C20_MergeKeepsUniformClass ==
  [][op' = "combine_objects" => \A a \in QueryIds, b \in QueryIds :
       (/\ Bound /\ result' = "ok"
        /\ UniformClass(tx.frames, b)
        /\ CombineObjects(a, b))
       => ClassesOf(tx'.frames, b) = ClassesOf(tx.frames, b)]_vars

\* C20 witness: a merge has left its target on three frames, all its records
\* in one class, and the file holds the result
C20_Witness ==
  /\ op = "combine_objects" /\ result = "ok"
  /\ \E b \in QueryIds :
       /\ Cardinality(FramesOf(tx.frames, b)) = 3
       /\ UniformClass(tx.frames, b)
       /\ fs[connFile] = tx

\* the rejection C21 expects of combine_objects(a, a): invalid id for a <= 0,
\* unknown object for an id without records, else the overlap of a with itself
SelfMergeError(rows, a) ==
  IF a <= 0 THEN ErrInvalidId
  ELSE IF ~HasRecords(rows, a) THEN ErrNoFrom
  ELSE ErrShared

\* C21: combine_objects(a, a) never succeeds: for every id a and every store
\* state it is rejected (invalid id, unknown object, or overlap of a with
\* itself) and every record of a, class included, is as it was; nothing else
\* of the store, the file or the cursor changes either.
C21_SelfMergeRejected ==
  [][op' = "combine_objects" => \A a \in MergeIds :
       CombineObjects(a, a)
       => /\ result' = SelfMergeError(tx.frames, a)
          /\ SelectObject(tx'.frames, a) = SelectObject(tx.frames, a)
          /\ tx' = tx
          /\ fs' = fs
          /\ current_frame' = current_frame]_vars

\* C21 witness: a merge was refused for overlap while one object alone holds
\* the records, on two frames and in two classes, so the call merged that
\* object into itself
C21_Witness ==
  /\ op = "combine_objects" /\ result = ErrShared
  /\ \E a \in ObjectIds :
       /\ \A r \in Range(tx.frames) : r.object = a
       /\ Cardinality(FramesOf(tx.frames, a)) = 2
       /\ Cardinality(ClassesOf(tx.frames, a)) = 2

====
